---------------------------- MODULE Spec2Model ----------------------------
(***************************************************************************)
(* Advanced Button Manager (libs/adv_button/adv_button.c).                 *)
(*                                                                         *)
(* The model follows the C file: a singly linked registry of adv_button_t  *)
(* objects, the static used_gpio, the two shared hardware debounce timers  *)
(* FRC1 (press) and FRC2 (release), and the two one-shot software timers   *)
(* of every button (hold_timer, press_timer).  Time is counted in RTOS     *)
(* ticks (xTaskGetTickCountFromISR); millisecond durations are converted   *)
(* with portTICK_PERIOD_MS as the code does.  A timer is a number of       *)
(* ticks left until it fires, or Disarmed; time never advances past a      *)
(* timer that is due.  The tick counter is kept inside a sliding window    *)
(* one tick wider than the very-long threshold: when it would leave the    *)
(* window, now and every last_event_time are moved back together, so that  *)
(* now - last_event_time is exact up to the window and stays beyond every  *)
(* threshold once it is beyond the window.                                 *)
(*                                                                         *)
(* adv_button_destroy never frees the object it unlinks, and the software  *)
(* timers hold a pointer to their button, not a registry entry.  The heap  *)
(* therefore keeps every object that is linked or that still has an armed  *)
(* timer; an unlinked object with both timers disarmed can never be        *)
(* reached again and is dropped from the heap.                             *)
(***************************************************************************)
EXTENDS Integers, Sequences, FiniteSets, TLC

\* ------------------------------------------------------------------------
\* Program constants
DEBOUNCE_FRECUENCY == 50
DOUBLEPRESS_TIME == 400
LONGPRESS_TIME == 450
VERYLONGPRESS_TIME == 1200
HOLDPRESS_TIME == 10000
\* FreeRTOS tick period in milliseconds, used at lines 84 and 94.
portTICK_PERIOD_MS == 10

\* ------------------------------------------------------------------------
\* Bounds of the exploration
MaxPin == 2
MaxButtons == 3
MaxLog == 3
MaxEdges == 4

\* ------------------------------------------------------------------------
\* Values
NULL == 0
Disarmed == -1
Pins == 0 .. MaxPin
\* Function pointers: NULL, the default diagnostic handler, an application
\* handler.
no_function_callback == "no_function_callback"
user_callback == "user_callback"
CallbackArgs == {"NULL", user_callback}
\* button_callback_type is a uint8_t; 1..5 are the switch cases, and the
\* kinds on either side of them stand for the default case.
ValidTypes == 1 .. 5
CallbackTypes == 0 .. 6
Uint8 == 256

\* Durations in ticks
VeryLongTicks == VERYLONGPRESS_TIME \div portTICK_PERIOD_MS
LongTicks == LONGPRESS_TIME \div portTICK_PERIOD_MS
DoubleTicks == DOUBLEPRESS_TIME \div portTICK_PERIOD_MS
HoldTicks == HOLDPRESS_TIME \div portTICK_PERIOD_MS
DebounceTicks == (1000 \div DEBOUNCE_FRECUENCY) \div portTICK_PERIOD_MS

VARIABLES
    heap,       \* adv_button_t objects, the linked ones in list order
    used_gpio,  \* static uint8_t used_gpio
    frc1,       \* FRC1 (press debounce): ticks left, or Disarmed
    frc2,       \* FRC2 (release debounce): ticks left, or Disarmed
    level,      \* gpio_read(pin): 0 pressed, 1 released
    intr,       \* pins with adv_button_intr_callback attached
    now,        \* xTaskGetTickCountFromISR()
    log,        \* handler invocations, in order
    ret,        \* the last public call and what it returned
    hung,       \* adv_button_destroy is spinning in its loop
    fault,      \* a callback dereferenced a NULL button
    edges,      \* edges seen so far (bounds the exploration)
    armed_by    \* per debounce channel, the pin whose edge started its run

vars == <<heap, used_gpio, frc1, frc2, level, intr, now, log, ret, hung, fault, edges,
          armed_by>>

\* No edge has started either debounce channel.
NoChannel == [frc1 |-> NULL, frc2 |-> NULL]

\* ------------------------------------------------------------------------
\* The registry

\* malloc + memset(0) + gpio, then line 197
NewButton(gpio) ==
    [ gpio |-> gpio,
      singlepress_callback_fn |-> no_function_callback,
      doublepress_callback_fn |-> "NULL",
      longpress_callback_fn |-> "NULL",
      verylongpress_callback_fn |-> "NULL",
      holdpress_callback_fn |-> "NULL",
      press_count |-> 0,
      press_timer |-> Disarmed,
      hold_timer |-> Disarmed,
      last_event_time |-> 0,
      linked |-> TRUE ]

IsLinked(b) == b.linked

\* The list that starts at the static pointer `buttons`, head first.
buttons == SelectSeq(heap, IsLinked)

\* Indices of the heap that are on the list, in list order.
RECURSIVE LinkedFrom(_)
LinkedFrom(i) ==
    IF i > Len(heap) THEN <<>>
    ELSE IF heap[i].linked THEN <<i>> \o LinkedFrom(i + 1)
    ELSE LinkedFrom(i + 1)

LinkedIdx == LinkedFrom(1)

\* button_find_by_gpio: the heap index of the first list entry with this
\* gpio, or NULL.
RECURSIVE FindFrom(_, _)
FindFrom(idx, gpio) ==
    IF idx = <<>> THEN NULL
    ELSE IF heap[Head(idx)].gpio = gpio THEN Head(idx)
    ELSE FindFrom(Tail(idx), gpio)

button_find_by_gpio(gpio) == FindFrom(LinkedIdx, gpio)

\* An unlinked object with no armed timer is unreachable.
Live(b) == b.linked \/ b.press_timer # Disarmed \/ b.hold_timer # Disarmed

Collect(h) == SelectSeq(h, Live)


\* ------------------------------------------------------------------------
\* Handler invocation

Call(gpio, slot, fn) == [gpio |-> gpio, slot |-> slot, fn |-> fn]

\* Calling through a NULL function pointer.
CallsNull(calls) == \E k \in 1 .. Len(calls) : calls[k].fn = "NULL"

\* No public call is in progress and nothing has crashed.
Running == ~fault /\ Len(log) < MaxLog

\* ------------------------------------------------------------------------
\* adv_button_create

CreateResult(gpio) ==
    IF button_find_by_gpio(gpio) # NULL THEN -1 ELSE 0

\* Mutant: the lookup result is ignored and the existing button is
\* initialised again.
CreateHeapReinit(gpio) ==
    IF button_find_by_gpio(gpio) # NULL
    THEN [heap EXCEPT ![button_find_by_gpio(gpio)] = NewButton(gpio)]
    ELSE <<NewButton(gpio)>> \o heap

\* Mutant: the new button is linked without looking the pin up first.
CreateHeapAlways(gpio) == <<NewButton(gpio)>> \o heap

CreateHeap(gpio) ==
    IF button_find_by_gpio(gpio) # NULL THEN heap
    ELSE <<NewButton(gpio)>> \o heap

adv_button_create(gpio) ==
    /\ Running /\ ~hung
    /\ button_find_by_gpio(gpio) = NULL => Len(buttons) < MaxButtons
    /\ ret' = [op |-> "create", gpio |-> gpio, val |-> CreateResult(gpio)]
    /\ heap' = CreateHeap(gpio)
    /\ IF CreateResult(gpio) = 0
       THEN /\ intr' = [intr EXCEPT ![gpio] = TRUE]
            /\ frc1' = IF buttons = <<>> THEN Disarmed ELSE frc1
            /\ frc2' = IF buttons = <<>> THEN Disarmed ELSE frc2
            /\ armed_by' = IF buttons = <<>> THEN NoChannel ELSE armed_by
       ELSE UNCHANGED <<intr, frc1, frc2, armed_by>>
    /\ UNCHANGED <<used_gpio, level, now, log, hung, fault, edges>>

\* ------------------------------------------------------------------------
\* adv_button_register_callback_fn

\* Mutant: the default case reports the same error as a failed lookup.
RegisterResultOneError(gpio, type) ==
    IF button_find_by_gpio(gpio) = NULL \/ type \notin 1 .. 5 THEN -1 ELSE 0

RegisterResult(gpio, type) ==
    IF button_find_by_gpio(gpio) = NULL THEN -1
    ELSE IF type \in 1 .. 5 THEN 0
    ELSE -2

\* Mutant: case 1 stores the handler as the other cases do.
SetCallbackRaw(b, callback, type) ==
    CASE type = 1 -> [b EXCEPT !.singlepress_callback_fn = callback]
      [] type = 2 -> [b EXCEPT !.doublepress_callback_fn = callback]
      [] type = 3 -> [b EXCEPT !.longpress_callback_fn = callback]
      [] type = 4 -> [b EXCEPT !.verylongpress_callback_fn = callback]
      [] type = 5 -> [b EXCEPT !.holdpress_callback_fn = callback]
      [] OTHER -> b

\* The switch on button_callback_type, applied to one button.
SetCallback(b, callback, type) ==
    CASE type = 1 ->
           [b EXCEPT !.singlepress_callback_fn =
               IF callback # "NULL" THEN callback ELSE no_function_callback]
      [] type = 2 -> [b EXCEPT !.doublepress_callback_fn = callback]
      [] type = 3 -> [b EXCEPT !.longpress_callback_fn = callback]
      [] type = 4 -> [b EXCEPT !.verylongpress_callback_fn = callback]
      [] type = 5 -> [b EXCEPT !.holdpress_callback_fn = callback]
      [] OTHER -> b

adv_button_register_callback_fn(gpio, callback, type) ==
    /\ Running /\ ~hung
    /\ ret' = [op |-> "register", gpio |-> gpio, val |-> RegisterResult(gpio, type)]
    /\ heap' = IF button_find_by_gpio(gpio) = NULL THEN heap
               ELSE [heap EXCEPT ![button_find_by_gpio(gpio)] =
                        SetCallback(@, callback, type)]
    /\ UNCHANGED <<used_gpio, frc1, frc2, level, intr, now, log, hung, fault, edges,
                   armed_by>>

\* ------------------------------------------------------------------------
\* adv_button_destroy

\* The heap index of the object the search of lines 245-258 unlinks, or
\* NULL.  The loop never advances b, so it only ever looks at the entry
\* after the head.
DestroyTarget(gpio) ==
    IF buttons = <<>> THEN NULL
    ELSE IF buttons[1].gpio = gpio THEN LinkedIdx[1]
    ELSE IF Len(buttons) >= 2 /\ buttons[2].gpio = gpio THEN LinkedIdx[2]
    ELSE NULL

\* `while (b->next)` with b fixed at the head: an entry after the head that
\* does not match is examined again and again.
DestroySpins(gpio) ==
    /\ buttons # <<>>
    /\ buttons[1].gpio # gpio
    /\ Len(buttons) >= 2
    /\ buttons[2].gpio # gpio

\* Mutant: the object is unlinked with its timers left armed.
DestroyButtonKeepsTimers(b) == [b EXCEPT !.linked = FALSE]

\* Lines 260-267 on the unlinked object.
DestroyButton(b) ==
    [b EXCEPT !.linked = FALSE, !.hold_timer = Disarmed, !.press_timer = Disarmed]

adv_button_destroy(gpio) ==
    /\ Running /\ ~hung
    /\ IF DestroySpins(gpio)
       THEN /\ hung' = TRUE
            /\ UNCHANGED <<heap, intr, ret>>
       ELSE /\ hung' = FALSE
            /\ ret' = [op |-> "destroy", gpio |-> gpio, val |-> 0]
            /\ IF DestroyTarget(gpio) = NULL
               THEN UNCHANGED <<heap, intr>>
               ELSE /\ heap' = Collect([heap EXCEPT ![DestroyTarget(gpio)] =
                                           DestroyButton(@)])
                    /\ intr' = [intr EXCEPT ![gpio] = FALSE]
    /\ UNCHANGED <<used_gpio, frc1, frc2, level, now, log, fault, edges, armed_by>>

\* ------------------------------------------------------------------------
\* adv_button_intr_callback, run by an edge on a pin whose interrupt is
\* attached.  FRC2 is reloaded by timer_set_frequency on every release edge;
\* FRC1 is only set running, so a run already in progress goes on.

ArmFRC2(t) == DebounceTicks

ArmFRC1(t) == IF t = Disarmed THEN DebounceTicks ELSE t

Edge(pin) ==
    /\ Running
    /\ level' = [level EXCEPT ![pin] = 1 - @]
    /\ IF intr[pin] /\ button_find_by_gpio(pin) # NULL
       THEN /\ used_gpio' = pin
            /\ IF level'[pin] = 1
               THEN /\ frc2' = ArmFRC2(frc2) /\ frc1' = frc1
                    /\ armed_by' = [armed_by EXCEPT !.frc2 = pin]
               ELSE /\ frc1' = ArmFRC1(frc1) /\ frc2' = frc2
                    /\ armed_by' = IF frc1 = Disarmed
                                   THEN [armed_by EXCEPT !.frc1 = pin]
                                   ELSE armed_by
       ELSE UNCHANGED <<used_gpio, frc1, frc2, armed_by>>
    /\ edges < MaxEdges
    /\ edges' = edges + 1
    /\ UNCHANGED <<heap, intr, now, log, ret, hung, fault>>

\* ------------------------------------------------------------------------
\* push_down_timer_callback (FRC1)

\* Mutant: confirming a press also cancels the pending single press.
PressConfirmedDisarms(b, t) ==
    [b EXCEPT !.hold_timer = HoldTicks, !.last_event_time = t,
              !.press_timer = Disarmed]

PressConfirmed(b, t) ==
    [b EXCEPT !.hold_timer = HoldTicks, !.last_event_time = t]

push_down_timer_callback ==
    /\ Running
    /\ frc1 = 0
    /\ frc1' = Disarmed
    /\ armed_by' = [armed_by EXCEPT !.frc1 = NULL]
    /\ IF level[used_gpio] = 0
       THEN IF button_find_by_gpio(used_gpio) = NULL
            THEN fault' = TRUE /\ heap' = heap
            ELSE /\ heap' = [heap EXCEPT ![button_find_by_gpio(used_gpio)] =
                                PressConfirmed(@, now)]
                 /\ fault' = fault
       ELSE UNCHANGED <<heap, fault>>
    /\ UNCHANGED <<used_gpio, frc2, level, intr, now, log, ret, hung, edges>>

\* ------------------------------------------------------------------------
\* push_up_timer_callback (FRC2)

\* now - button->last_event_time (uint32_t; the tick counter of the model
\* never wraps, and never runs behind a recorded time).
Elapsed(b, t) == t - b.last_event_time

IsVeryLong(e) == e > VERYLONGPRESS_TIME \div portTICK_PERIOD_MS

\* Mutant: the long threshold taken inclusively.
IsLongInclusive(e) == e >= LONGPRESS_TIME \div portTICK_PERIOD_MS

IsLong(e) == e > LONGPRESS_TIME \div portTICK_PERIOD_MS

\* Mutant: a very long press without its handler goes straight to the
\* single-press handler.
VeryLongCallsSkipLong(b) ==
    IF b.verylongpress_callback_fn # "NULL"
    THEN <<Call(b.gpio, "verylong", b.verylongpress_callback_fn)>>
    ELSE <<Call(b.gpio, "single", b.singlepress_callback_fn)>>

\* Lines 87-93: the handler of a very long press.
VeryLongCalls(b) ==
    IF b.verylongpress_callback_fn # "NULL"
    THEN <<Call(b.gpio, "verylong", b.verylongpress_callback_fn)>>
    ELSE IF b.longpress_callback_fn # "NULL"
    THEN <<Call(b.gpio, "long", b.longpress_callback_fn)>>
    ELSE <<Call(b.gpio, "single", b.singlepress_callback_fn)>>

\* Lines 97-101: the handler of a long press.
LongCalls(b) ==
    IF b.longpress_callback_fn # "NULL"
    THEN <<Call(b.gpio, "long", b.longpress_callback_fn)>>
    ELSE <<Call(b.gpio, "single", b.singlepress_callback_fn)>>

\* Mutant: the second press is recognised one press late.
IsDoubleLate(count) == count > 2

\* Line 104, on the incremented press_count.
IsDouble(count) == count > 1

\* Mutant: the double press is dispatched without resetting press_count.
ShortWithDoubleKeepsCount(b) ==
    IF IsDouble((b.press_count + 1) % Uint8)
    THEN [ button |-> [b EXCEPT !.press_timer = Disarmed,
                                !.press_count = (b.press_count + 1) % Uint8],
           calls |-> <<Call(b.gpio, "double", b.doublepress_callback_fn)>> ]
    ELSE [ button |-> [b EXCEPT !.press_timer = DoubleTicks,
                                !.press_count = (b.press_count + 1) % Uint8],
           calls |-> <<>> ]

\* Lines 103-111: a short press of a button with a double-press handler.
ShortWithDouble(b) ==
    IF IsDouble((b.press_count + 1) % Uint8)
    THEN [ button |-> [b EXCEPT !.press_timer = Disarmed, !.press_count = 0],
           calls |-> <<Call(b.gpio, "double", b.doublepress_callback_fn)>> ]
    ELSE [ button |-> [b EXCEPT !.press_timer = DoubleTicks,
                                !.press_count = (b.press_count + 1) % Uint8],
           calls |-> <<>> ]

\* Mutant: a short press waits for a second one although no double-press
\* handler is bound.
ShortWithoutDoubleWaits(b) ==
    [ button |-> [b EXCEPT !.press_timer = DoubleTicks,
                           !.press_count = (b.press_count + 1) % Uint8],
      calls |-> <<>> ]

\* Line 113: a short press of a button without one.
ShortWithoutDouble(b) ==
    [ button |-> b,
      calls |-> <<Call(b.gpio, "single", b.singlepress_callback_fn)>> ]

\* Lines 84-114: the button after the release, and the handler calls made.
Classify(b, t) ==
    IF IsVeryLong(Elapsed(b, t))
    THEN [button |-> [b EXCEPT !.press_count = 0], calls |-> VeryLongCalls(b)]
    ELSE IF IsLong(Elapsed(b, t))
    THEN [button |-> [b EXCEPT !.press_count = 0], calls |-> LongCalls(b)]
    ELSE IF b.doublepress_callback_fn # "NULL"
    THEN ShortWithDouble(b)
    ELSE ShortWithoutDouble(b)

\* Line 81, then the classification.
ReleaseConfirmed(b, t) == Classify([b EXCEPT !.hold_timer = Disarmed], t)

push_up_timer_callback ==
    /\ Running
    /\ frc2 = 0
    /\ frc2' = Disarmed
    /\ armed_by' = [armed_by EXCEPT !.frc2 = NULL]
    /\ IF level[used_gpio] = 1
       THEN IF button_find_by_gpio(used_gpio) = NULL
            THEN fault' = TRUE /\ UNCHANGED <<heap, log>>
            ELSE LET i == button_find_by_gpio(used_gpio)
                     r == ReleaseConfirmed(heap[i], now)
                 IN  /\ heap' = [heap EXCEPT ![i] = r.button]
                     /\ log' = log \o r.calls
                     /\ fault' = CallsNull(r.calls)
       ELSE UNCHANGED <<heap, log, fault>>
    /\ UNCHANGED <<used_gpio, frc1, level, intr, now, ret, hung, edges>>

\* ------------------------------------------------------------------------
\* adv_button_single_callback (press_timer of heap[i] expires)

\* Mutant: the candidate press is dispatched but press_count is kept.
SingleCallbackKeepsCount(b) ==
    [ button |-> [b EXCEPT !.press_timer = Disarmed],
      calls |-> <<Call(b.gpio, "single", b.singlepress_callback_fn)>> ]

SingleCallback(b) ==
    [ button |-> [b EXCEPT !.press_timer = Disarmed, !.press_count = 0],
      calls |-> <<Call(b.gpio, "single", b.singlepress_callback_fn)>> ]

adv_button_single_callback(i) ==
    /\ Running
    /\ heap[i].press_timer = 0
    /\ heap' = Collect([heap EXCEPT ![i] = SingleCallback(@).button])
    /\ log' = log \o SingleCallback(heap[i]).calls
    /\ fault' = CallsNull(SingleCallback(heap[i]).calls)
    /\ UNCHANGED <<used_gpio, frc1, frc2, level, intr, now, ret, hung, edges, armed_by>>

\* ------------------------------------------------------------------------
\* adv_button_hold_callback (hold_timer of heap[i] expires)

\* Mutant: the hold timer dispatches without re-reading the pin.
HoldCallbackIgnoresLevel(b, lvl) ==
    [ button |-> [b EXCEPT !.hold_timer = Disarmed, !.press_count = 0],
      calls |->
        IF b.holdpress_callback_fn # "NULL"
        THEN <<Call(b.gpio, "hold", b.holdpress_callback_fn)>>
        ELSE <<Call(b.gpio, "hold", no_function_callback)>> ]

HoldCallback(b, lvl) ==
    IF lvl = 0
    THEN [ button |-> [b EXCEPT !.hold_timer = Disarmed, !.press_count = 0],
           calls |->
             IF b.holdpress_callback_fn # "NULL"
             THEN <<Call(b.gpio, "hold", b.holdpress_callback_fn)>>
             ELSE <<Call(b.gpio, "hold", no_function_callback)>> ]
    ELSE [ button |-> [b EXCEPT !.hold_timer = Disarmed], calls |-> <<>> ]

adv_button_hold_callback(i) ==
    /\ Running
    /\ heap[i].hold_timer = 0
    /\ heap' = Collect([heap EXCEPT ![i] = HoldCallback(@, level[@.gpio]).button])
    /\ log' = log \o HoldCallback(heap[i], level[heap[i].gpio]).calls
    /\ UNCHANGED <<used_gpio, frc1, frc2, level, intr, now, ret, hung, fault, edges,
                   armed_by>>

\* ------------------------------------------------------------------------
\* Time

\* Ticks left on every armed timer.
Remaining ==
    {t \in {frc1, frc2} : t # Disarmed}
    \cup {heap[i].press_timer : i \in {j \in 1 .. Len(heap) : heap[j].press_timer # Disarmed}}
    \cup {heap[i].hold_timer : i \in {j \in 1 .. Len(heap) : heap[j].hold_timer # Disarmed}}

Elapse(t, d) == IF t = Disarmed THEN Disarmed ELSE t - d

\* The sliding window of the tick counter.
TickWindow == VeryLongTicks + 1

\* By how much the window moves when d ticks pass.
Shift(d) == IF now + d > TickWindow THEN now + d - TickWindow ELSE 0

Rebase(t, d) == IF t > Shift(d) THEN t - Shift(d) ELSE 0

\* A button whose press has been confirmed and whose pin is still low.
Held(b) == level[b.gpio] = 0 /\ b.hold_timer # Disarmed

\* The environment lets time pass up to the next timer that is due, or, while
\* a button is held, up to an instant from which a release is confirmed
\* (DebounceTicks later) at, or one tick past, one of the two thresholds.
ReleasePoints == {LongTicks, LongTicks + 1, VeryLongTicks, VeryLongTicks + 1}

TickSteps ==
    {d \in 1 .. TickWindow :
        \E i \in 1 .. Len(heap) :
            /\ Held(heap[i])
            /\ Elapsed(heap[i], now) + d + DebounceTicks \in ReleasePoints}

Tick(d) ==
    /\ Running
    /\ d > 0
    /\ \A r \in Remaining : d <= r
    /\ now' = now + d - Shift(d)
    /\ frc1' = Elapse(frc1, d)
    /\ frc2' = Elapse(frc2, d)
    /\ heap' = [i \in 1 .. Len(heap) |->
                  [heap[i] EXCEPT !.press_timer = Elapse(@, d),
                                  !.hold_timer = Elapse(@, d),
                                  !.last_event_time = Rebase(@, d)]]
    /\ UNCHANGED <<used_gpio, level, intr, log, ret, hung, fault, edges, armed_by>>

\* ------------------------------------------------------------------------
\* Specifications

Init ==
    /\ heap = <<>>
    /\ used_gpio = 0
    /\ frc1 = Disarmed
    /\ frc2 = Disarmed
    /\ level = [p \in Pins |-> 1]
    /\ intr = [p \in Pins |-> FALSE]
    /\ now = 0
    /\ log = <<>>
    /\ ret = [op |-> "none", gpio |-> 0, val |-> 0]
    /\ hung = FALSE
    /\ fault = FALSE
    /\ edges = 0
    /\ armed_by = NoChannel

NextOn(PS, Types) ==
    \/ \E g \in PS : adv_button_create(g)
    \/ \E g \in PS, cb \in CallbackArgs, ty \in Types :
          adv_button_register_callback_fn(g, cb, ty)
    \/ \E g \in PS : adv_button_destroy(g)
    \/ \E p \in PS : Edge(p)
    \/ push_down_timer_callback
    \/ push_up_timer_callback
    \/ \E i \in 1 .. Len(heap) : adv_button_single_callback(i)
    \/ \E i \in 1 .. Len(heap) : adv_button_hold_callback(i)
    \/ \E d \in TickSteps \cup Remaining : Tick(d)

\* One button, every operation, every gesture, every slot.
Next == NextOn({1}, ValidTypes)

Spec == Init /\ [][Next]_vars

\* Two buttons on the two shared debounce channels, with the handlers
\* create gives them: edges on either pin, the debounce callbacks, the hold
\* timers and the passing of time.
TwoPins == {1, 2}

NextTwoPins ==
    \/ \E g \in TwoPins : adv_button_create(g)
    \/ \E p \in TwoPins : Edge(p)
    \/ push_down_timer_callback
    \/ push_up_timer_callback
    \/ \E i \in 1 .. Len(heap) : adv_button_hold_callback(i)
    \/ \E d \in TickSteps \cup Remaining : Tick(d)

SpecTwoPins == Init /\ [][NextTwoPins]_vars

\* The public operations alone, on every pin, with no edge and no timer:
\* the first two slots and the kinds the switch rejects.
RegistryTypes == CallbackTypes \ (3 .. 5)

NextRegistry ==
    \/ \E g \in Pins : adv_button_create(g)
    \/ \E g \in Pins, cb \in CallbackArgs, ty \in RegistryTypes :
          adv_button_register_callback_fn(g, cb, ty)
    \/ \E g \in Pins : adv_button_destroy(g)

SpecRegistry == Init /\ [][NextRegistry]_vars

\* ------------------------------------------------------------------------
\* Notions the properties share

Registered(p) == button_find_by_gpio(p) # NULL

\* The pins of the buttons in the registry.
RegisteredPins == {buttons[i].gpio : i \in 1 .. Len(buttons)}

\* The registered button of pin p.
Btn(p) == heap[button_find_by_gpio(p)]

LastCall == log[Len(log)]

\* This step is push_up_timer_callback confirming a release of button p.
UpConfirm(p) ==
    /\ push_up_timer_callback
    /\ used_gpio = p
    /\ level[p] = 1
    /\ Registered(p)

\* This step is push_down_timer_callback confirming a press of button p.
DownConfirm(p) ==
    /\ push_down_timer_callback
    /\ used_gpio = p
    /\ level[p] = 0
    /\ Registered(p)

\* This step is the press timer of button p expiring.
PressTimerFire(p) ==
    /\ Registered(p)
    /\ adv_button_single_callback(button_find_by_gpio(p))

\* This step is the hold timer of button p expiring.
HoldTimerFire(p) ==
    /\ Registered(p)
    /\ adv_button_hold_callback(button_find_by_gpio(p))

\* The calls this step adds to the log.
NewCalls == SubSeq(log', Len(log) + 1, Len(log'))

Slots(calls) == {calls[k].slot : k \in 1 .. Len(calls)}

\* ------------------------------------------------------------------------
\* C1: with a double-press handler bound, the confirmed release of a first
\* short press (press_count 0) dispatches nothing, sets press_count to 1 and
\* arms the press timer for the double-press window; the confirmed release
\* of a second short press while that timer is still armed dispatches the
\* double-press handler exactly once and nothing else, resets press_count
\* to 0 and disarms the press timer, so that no single press follows.
C1_DoublePress ==
    [][\A p \in Pins :
         (/\ UpConfirm(p)
          /\ Btn(p).doublepress_callback_fn # "NULL"
          /\ Elapsed(Btn(p), now) < LongTicks)
         =>
         /\ Btn(p).press_count = 0 =>
              /\ log' = log
              /\ Btn(p)'.press_count = 1
              /\ Btn(p)'.press_timer = DoubleTicks
         /\ (Btn(p).press_count = 1 /\ Btn(p).press_timer # Disarmed) =>
              /\ log' = Append(log, Call(p, "double", Btn(p).doublepress_callback_fn))
              /\ Btn(p)'.press_count = 0
              /\ Btn(p)'.press_timer = Disarmed]_vars

\* Two short presses have been turned into one double press, and nothing
\* else has been dispatched.
C1_Witness ==
    \E p \in Pins :
        /\ Registered(p)
        /\ edges = 4
        /\ log = <<Call(p, "double", user_callback)>>
        /\ Btn(p).press_count = 0
        /\ Btn(p).press_timer = Disarmed

\* ------------------------------------------------------------------------
\* C2: a candidate single press (press_count 1, press timer armed) stays
\* pending until a handler is dispatched or the button is destroyed; the
\* press timer expiring dispatches the single-press handler exactly once and
\* resets press_count to 0; and the double-press handler is dispatched only
\* by a release confirmed while a candidate is pending, so two short presses
\* further apart than the window give two single presses and no double.
C2_SinglePress ==
    [][\A p \in RegisteredPins :
         /\ PressTimerFire(p) =>
              /\ log' = Append(log, Call(p, "single", Btn(p).singlepress_callback_fn))
              /\ Btn(p)'.press_count = 0
              /\ Btn(p)'.press_timer = Disarmed
         /\ (/\ log' = log
             /\ Registered(p)
             /\ Btn(p).press_count = 1
             /\ Btn(p).press_timer # Disarmed
             /\ ~adv_button_destroy(p))
            =>
              /\ Registered(p)'
              /\ Btn(p)'.press_count = 1
              /\ Btn(p)'.press_timer # Disarmed
              /\ Btn(p)'.press_timer <= Btn(p).press_timer
         /\ (/\ log' # log
             /\ Registered(p)
             /\ "double" \in Slots(NewCalls)
             /\ NewCalls[1].gpio = p)
            => Btn(p).press_count = 1]_vars

\* Two short presses further apart than the window: two single presses.
C2_Witness ==
    \E p \in Pins :
        /\ Registered(p)
        /\ Btn(p).doublepress_callback_fn # "NULL"
        /\ log = <<Call(p, "single", user_callback), Call(p, "single", user_callback)>>
        /\ Btn(p).press_count = 0
        /\ now = 2 * (2 * DebounceTicks + DoubleTicks)

\* ------------------------------------------------------------------------
\* C3: the hold of button p was the last handler dispatched and the button
\* is as the hold callback left it (hold timer disarmed, press_count 0): no
\* release has been confirmed since.
HoldJustFired(p) ==
    /\ Registered(p)
    /\ Len(log) > 0
    /\ LastCall.gpio = p
    /\ LastCall.slot = "hold"
    /\ Btn(p).hold_timer = Disarmed
    /\ Btn(p).press_count = 0

\* What a hold timer expiring on a pressed pin dispatches.
HoldCall(b) ==
    Call(b.gpio, "hold",
         IF b.holdpress_callback_fn # "NULL" THEN b.holdpress_callback_fn
         ELSE no_function_callback)

\* What a release classified as very long dispatches.
VeryLongCall(b) ==
    IF b.verylongpress_callback_fn # "NULL"
    THEN Call(b.gpio, "verylong", b.verylongpress_callback_fn)
    ELSE IF b.longpress_callback_fn # "NULL"
    THEN Call(b.gpio, "long", b.longpress_callback_fn)
    ELSE Call(b.gpio, "single", b.singlepress_callback_fn)

\* C3 as stated: the hold timer expiring on a pressed pin dispatches the hold
\* handler once, and no long, very-long or single-press handler is
\* dispatched for that press, also when the pin is released afterwards.
C3_HoldOnly ==
    [][\A p \in Pins :
         /\ (HoldTimerFire(p) /\ level[p] = 0) =>
              log' = Append(log, HoldCall(Btn(p)))
         /\ HoldJustFired(p) =>
              Slots(NewCalls) \cap {"long", "verylong", "single"} = {}]_vars

\* C3 as amended: the hold timer expiring dispatches the hold handler (the
\* default diagnostic handler if none is bound) exactly once if the pin
\* still reads pressed, and nothing if it reads released; after that nothing
\* is dispatched for the press until its release is confirmed, and the
\* confirmed release dispatches exactly one more handler, that of a very
\* long press (very-long if bound, else long if bound, else single-press).
C3_HoldThenRelease ==
    [][\A p \in RegisteredPins :
         /\ HoldTimerFire(p) =>
              /\ log' = IF level[p] = 0 THEN Append(log, HoldCall(Btn(p))) ELSE log
              /\ Btn(p)'.hold_timer = Disarmed
              /\ level[p] = 0 => Btn(p)'.press_count = 0
         /\ (log' # log /\ HoldJustFired(p)) =>
              /\ UpConfirm(p)
              /\ log' = Append(log, VeryLongCall(Btn(p)))
              /\ Btn(p)'.press_count = 0]_vars

\* A hold has been dispatched and the release that followed has been
\* dispatched as a very long press.
C3_Witness ==
    \E p \in Pins :
        /\ Registered(p)
        /\ log = <<Call(p, "hold", user_callback), Call(p, "verylong", user_callback)>>
        /\ level[p] = 1
        /\ Btn(p).hold_timer = Disarmed

\* ------------------------------------------------------------------------
\* C4: once adv_button_destroy(p) has returned, p is not in the registry
\* (button_find_by_gpio gives NULL); no object that has left the registry
\* keeps an armed hold or press timer; and no step dispatches a handler for
\* a pin that is not registered, whether the step is an edge, a debounce
\* timer or a button timer.
C4_Destroyed ==
    [][\A p \in Pins :
         /\ (ret'.op = "destroy" /\ ret'.gpio = p) => ~Registered(p)'
         /\ \A i \in 1 .. Len(heap') :
              ~heap'[i].linked =>
                 heap'[i].hold_timer = Disarmed /\ heap'[i].press_timer = Disarmed
         /\ ~Registered(p) =>
              \A k \in 1 .. Len(NewCalls) : NewCalls[k].gpio # p]_vars

\* A button that had been pressed and had dispatched a handler has been
\* destroyed while its pin is low.
C4_Witness ==
    \E p \in Pins :
        /\ ret = [op |-> "destroy", gpio |-> p, val |-> 0]
        /\ ~Registered(p)
        /\ ~intr[p]
        /\ level[p] = 0
        /\ Len(log) > 0
        /\ ~fault

\* ------------------------------------------------------------------------
\* C5: adv_button_destroy returns, whatever the registry holds and whatever
\* pin it is given.
C5_DestroyReturns == ~hung

\* ------------------------------------------------------------------------
\* What a release classified as long dispatches.
LongCall(b) ==
    IF b.longpress_callback_fn # "NULL"
    THEN Call(b.gpio, "long", b.longpress_callback_fn)
    ELSE Call(b.gpio, "single", b.singlepress_callback_fn)

SingleCall(b) == Call(b.gpio, "single", b.singlepress_callback_fn)

\* C6: a release confirmed more than the very-long threshold after the press
\* dispatches exactly one handler, very-long if bound, else long if bound,
\* else single-press; one confirmed more than the long threshold but not
\* more than the very-long one dispatches exactly one handler, long if
\* bound, else single-press.  Both reset press_count to 0 and leave the
\* press timer as it was.
C6_Fallback ==
    [][\A p \in Pins :
         UpConfirm(p) =>
           /\ Elapsed(Btn(p), now) > VeryLongTicks =>
                /\ log' = Append(log, VeryLongCall(Btn(p)))
                /\ Btn(p)'.press_count = 0
                /\ Btn(p)'.press_timer = Btn(p).press_timer
           /\ (Elapsed(Btn(p), now) > LongTicks /\ Elapsed(Btn(p), now) <= VeryLongTicks) =>
                /\ log' = Append(log, LongCall(Btn(p)))
                /\ Btn(p)'.press_count = 0
                /\ Btn(p)'.press_timer = Btn(p).press_timer]_vars

\* A very long press of a button with a long but no very-long handler has
\* just been dispatched to the long handler.
C6_Witness ==
    \E p \in Pins :
        /\ Registered(p)
        /\ Btn(p).verylongpress_callback_fn = "NULL"
        /\ log = <<Call(p, "long", user_callback)>>
        /\ Elapsed(Btn(p), now) > VeryLongTicks
        /\ edges = 2
        /\ Remaining = {}

\* ------------------------------------------------------------------------
\* C7 as stated: a release confirmed exactly the long threshold after the
\* press is classified as a long press, and one confirmed exactly the
\* very-long threshold after it as a very long press.
C7_Inclusive ==
    [][\A p \in Pins :
         UpConfirm(p) =>
           /\ Elapsed(Btn(p), now) = LongTicks =>
                log' = Append(log, LongCall(Btn(p))) /\ Btn(p)'.press_count = 0
           /\ Elapsed(Btn(p), now) = VeryLongTicks =>
                log' = Append(log, VeryLongCall(Btn(p)))]_vars

\* C7 as amended: the thresholds are exclusive.  A release confirmed exactly
\* LongTicks after the press is a short press (it counts towards a double
\* press, or dispatches single-press at once when no double-press handler is
\* bound) and one tick later it is a long press; a release confirmed exactly
\* VeryLongTicks after the press is a long press and one tick later it is a
\* very long press.
C7_Exclusive ==
    [][\A p \in Pins :
         UpConfirm(p) =>
           /\ Elapsed(Btn(p), now) = LongTicks =>
                IF Btn(p).doublepress_callback_fn = "NULL"
                THEN log' = Append(log, SingleCall(Btn(p)))
                ELSE IF Btn(p).press_count = 0
                THEN log' = log /\ Btn(p)'.press_count = 1
                     /\ Btn(p)'.press_timer = DoubleTicks
                ELSE log' = Append(log, Call(p, "double", Btn(p).doublepress_callback_fn))
           /\ Elapsed(Btn(p), now) = LongTicks + 1 =>
                log' = Append(log, LongCall(Btn(p))) /\ Btn(p)'.press_count = 0
           /\ Elapsed(Btn(p), now) = VeryLongTicks =>
                log' = Append(log, LongCall(Btn(p))) /\ Btn(p)'.press_count = 0
           /\ Elapsed(Btn(p), now) = VeryLongTicks + 1 =>
                log' = Append(log, VeryLongCall(Btn(p))) /\ Btn(p)'.press_count = 0]_vars

\* A release has just been confirmed exactly LongTicks after its press and
\* has been taken as the first press of a possible double press.
C7_Witness ==
    \E p \in Pins :
        /\ Registered(p)
        /\ Elapsed(Btn(p), now) = LongTicks
        /\ level[p] = 1
        /\ edges = 2
        /\ log = <<>>
        /\ Btn(p).press_count = 1
        /\ Btn(p).press_timer = DoubleTicks

\* ------------------------------------------------------------------------
\* C8: a button only takes a press_count other than 0, and only gets its
\* press timer armed, in a step taken while a double-press handler is bound
\* to it, so a button that has only ever had a single-press handler has
\* press_count 0 and its press timer disarmed; and on a button in that state
\* with no double-press handler, a release confirmed before the long
\* threshold dispatches the single-press handler exactly once in that very
\* step, leaves the press timer disarmed and press_count at 0.
C8_SingleOnly ==
    [][/\ \A i \in 1 .. Len(heap') :
            LET p == heap'[i].gpio IN
            /\ (heap'[i].linked /\ heap'[i].press_count # 0) =>
                 /\ Registered(p)
                 /\ Btn(p).press_count # 0 \/ Btn(p).doublepress_callback_fn # "NULL"
            /\ (heap'[i].linked /\ heap'[i].press_timer # Disarmed) =>
                 /\ Registered(p)
                 /\ Btn(p).press_timer # Disarmed \/ Btn(p).doublepress_callback_fn # "NULL"
       /\ \A p \in Pins :
            (/\ UpConfirm(p)
             /\ Btn(p).doublepress_callback_fn = "NULL"
             /\ Btn(p).press_count = 0
             /\ Btn(p).press_timer = Disarmed
             /\ Elapsed(Btn(p), now) < LongTicks)
            =>
              /\ log' = Append(log, SingleCall(Btn(p)))
              /\ Btn(p)'.press_timer = Disarmed
              /\ Btn(p)'.press_count = 0]_vars

\* One short press of a button with no double-press handler has been
\* dispatched to the application's single-press handler at the confirmed
\* release, two debounce periods after the first edge.
C8_Witness ==
    \E p \in Pins :
        /\ Registered(p)
        /\ Btn(p).doublepress_callback_fn = "NULL"
        /\ log = <<Call(p, "single", user_callback)>>
        /\ edges = 2
        /\ now = 2 * DebounceTicks
        /\ Btn(p).press_count = 0
        /\ Remaining = {}

\* ------------------------------------------------------------------------
\* C9: adv_button_create on a registered pin returns -1 and changes nothing
\* else: the registry, every field of every button and both debounce
\* channels stay as they are.
C9_CreateTwice ==
    [][\A p \in Pins :
         (Registered(p) /\ adv_button_create(p)) =>
           /\ ret' = [op |-> "create", gpio |-> p, val |-> -1]
           /\ UNCHANGED <<heap, used_gpio, frc1, frc2, level, intr, now, log,
                          hung, fault, edges, armed_by>>]_vars

\* The second create has returned -1 on a button with handlers bound, a
\* candidate press pending and its press timer running.
C9_Witness ==
    \E p \in Pins :
        /\ ret = [op |-> "create", gpio |-> p, val |-> -1]
        /\ Registered(p)
        /\ Btn(p).doublepress_callback_fn = user_callback
        /\ Btn(p).press_count = 1
        /\ Btn(p).press_timer > 0
        /\ Btn(p).last_event_time > 0

\* ------------------------------------------------------------------------
\* C10: every button in the registry has a single-press handler, and a
\* button just created has the default diagnostic handler.
C10_SingleSlot ==
    /\ \A i \in 1 .. Len(buttons) :
          buttons[i].singlepress_callback_fn \in {no_function_callback, user_callback}
    /\ (ret.op = "create" /\ ret.val = 0) =>
          /\ Registered(ret.gpio)
          /\ Btn(ret.gpio).singlepress_callback_fn = no_function_callback

\* A register call has left one button with the default handler while
\* another has the application's.
C10_Witness ==
    \E p, q \in Pins :
        /\ Registered(p) /\ Registered(q)
        /\ ret = [op |-> "register", gpio |-> q, val |-> 0]
        /\ Btn(p).singlepress_callback_fn = user_callback
        /\ Btn(q).singlepress_callback_fn = no_function_callback
        /\ Btn(q).doublepress_callback_fn = user_callback

\* ------------------------------------------------------------------------
\* C11: adv_button_register_callback_fn with a kind outside 1..5 changes no
\* button at all; on a registered pin it returns -2, and on an unregistered
\* pin -1, so the two failures can be told apart.
C11_InvalidKind ==
    [][\A p \in Pins, cb \in CallbackArgs, ty \in CallbackTypes \ ValidTypes :
         adv_button_register_callback_fn(p, cb, ty) =>
           /\ heap' = heap
           /\ ret'.val = IF Registered(p) THEN -2 ELSE -1]_vars

\* A register call has returned -2 on a button whose double-press slot was
\* bound before and still is, while its other slots are as create left them.
C11_Witness ==
    \E p \in Pins :
        /\ ret = [op |-> "register", gpio |-> p, val |-> -2]
        /\ Registered(p)
        /\ Btn(p).doublepress_callback_fn = user_callback
        /\ Btn(p).singlepress_callback_fn = no_function_callback
        /\ Len(buttons) = 2

\* ------------------------------------------------------------------------
\* C12: no two buttons of the registry have the same gpio.
C12_UniquePin ==
    \A i, j \in 1 .. Len(buttons) :
        buttons[i].gpio = buttons[j].gpio => i = j

\* A create asking for a pin that two registered buttons already cover one
\* of has been refused.
C12_Witness ==
    \E p \in Pins :
        /\ ret = [op |-> "create", gpio |-> p, val |-> -1]
        /\ Len(buttons) = 2
        /\ buttons[2].gpio = p

\* ------------------------------------------------------------------------
\* C13: adv_button_destroy(p) on a registered pin returns, and leaves the
\* registry as it was but for the button of p, wherever in the list that
\* button sits; every other button keeps all its fields.
C13_DestroyAnywhere ==
    [][\A p \in Pins :
         (Registered(p) /\ adv_button_destroy(p)) =>
           /\ ~hung'
           /\ ret' = [op |-> "destroy", gpio |-> p, val |-> 0]
           /\ buttons' = SelectSeq(buttons, LAMBDA b : b.gpio # p)]_vars

\* ------------------------------------------------------------------------
\* C14: a debounce callback that confirms an edge (the pin it reads is at
\* the level the channel stands for) acts on the button of used_gpio; the
\* claim is that this is the button of the pin whose edge started the
\* channel.
C14_RightButton ==
    [][/\ (push_down_timer_callback /\ level[used_gpio] = 0) =>
             used_gpio = armed_by.frc1
       /\ (push_up_timer_callback /\ level[used_gpio] = 1) =>
             used_gpio = armed_by.frc2]_vars

\* ------------------------------------------------------------------------
\* C15: once a pin reads released and no debounce channel is running any
\* more, the hold timer of its button is disarmed, so that it cannot expire
\* for a press that has ended.
C15_NoStaleHold ==
    \A i \in 1 .. Len(buttons) :
        (/\ level[buttons[i].gpio] = 1
         /\ frc1 = Disarmed
         /\ frc2 = Disarmed)
        => buttons[i].hold_timer = Disarmed

\* ------------------------------------------------------------------------
\* C16 as stated: a press confirmed while a candidate single press is
\* pending (press_count 1, press timer armed) disarms the press timer.
C16_DisarmedAtSecondPress ==
    [][\A p \in RegisteredPins :
         (/\ DownConfirm(p)
          /\ Btn(p).doublepress_callback_fn # "NULL"
          /\ Btn(p).press_count = 1
          /\ Btn(p).press_timer # Disarmed)
         => Btn(p)'.press_timer = Disarmed]_vars

\* C16 as amended: confirming a press leaves the press timer, press_count
\* and the handlers alone; a press timer that expires while the pin is held
\* for the second press dispatches the single-press handler for the first
\* one and resets press_count; and the short release confirmed after that
\* dispatches nothing and starts a new candidate (press_count 1, press timer
\* armed for the double-press window).  The timer is only disarmed by the
\* second release confirmed while it is still armed.
C16_DisarmedAtSecondRelease ==
    [][\A p \in RegisteredPins :
         /\ DownConfirm(p) =>
              /\ Btn(p)'.press_timer = Btn(p).press_timer
              /\ Btn(p)'.press_count = Btn(p).press_count
              /\ log' = log
         /\ (PressTimerFire(p) /\ level[p] = 0) =>
              /\ log' = Append(log, SingleCall(Btn(p)))
              /\ Btn(p)'.press_count = 0
         /\ (/\ UpConfirm(p)
             /\ Btn(p).doublepress_callback_fn # "NULL"
             /\ Elapsed(Btn(p), now) <= LongTicks)
            =>
              IF Btn(p).press_count = 1 /\ Btn(p).press_timer # Disarmed
              THEN /\ log' = Append(log, Call(p, "double", Btn(p).doublepress_callback_fn))
                   /\ Btn(p)'.press_timer = Disarmed
              ELSE Btn(p).press_count = 0 =>
                   /\ log' = log
                   /\ Btn(p)'.press_count = 1
                   /\ Btn(p)'.press_timer = DoubleTicks]_vars

\* The second press was confirmed inside the window and is still held; the
\* press timer has expired meanwhile and dispatched a single press.
C16_Witness ==
    \E p \in Pins :
        /\ Registered(p)
        /\ Btn(p).doublepress_callback_fn = user_callback
        /\ log = <<Call(p, "single", user_callback)>>
        /\ edges = 3
        /\ level[p] = 0
        /\ Btn(p).hold_timer # Disarmed
        /\ Btn(p).last_event_time > DebounceTicks
        /\ Btn(p).press_count = 0
        /\ Btn(p).press_timer = Disarmed

\* ------------------------------------------------------------------------
\* A button no press of which has ever been confirmed: it is as create left
\* it and the tick counter has not yet left its first window, so that
\* last_event_time 0 is the value memset gave it.
NeverPressed(b) ==
    /\ b.last_event_time = 0
    /\ b.hold_timer = Disarmed
    /\ b.press_count = 0
    /\ b.press_timer = Disarmed
    /\ now < TickWindow

\* C17: the two debounce channels are never running at the same time, and
\* push_up_timer_callback dispatches nothing, and starts no candidate press,
\* on a button no press of which has been confirmed.
C17_StrictOrder ==
    [][/\ ~(frc1' # Disarmed /\ frc2' # Disarmed)
       /\ \A p \in RegisteredPins :
            (UpConfirm(p) /\ NeverPressed(Btn(p))) =>
               /\ log' = log
               /\ Btn(p)'.press_count = 0]_vars

\* ------------------------------------------------------------------------
\* C18: a debounce callback that confirms an edge (the pin it reads is at
\* the level the channel stands for) finds the button of used_gpio in the
\* registry, and so never dereferences NULL.
C18_ActivePinRegistered ==
    [][/\ (push_down_timer_callback /\ level[used_gpio] = 0) =>
             Registered(used_gpio) /\ ~fault'
       /\ (push_up_timer_callback /\ level[used_gpio] = 1) =>
             Registered(used_gpio) /\ ~fault']_vars

\* ------------------------------------------------------------------------
\* C19: between callbacks every button of the registry has press_count 0 or
\* 1, and press_count 1 only with its press timer armed.
C19_PressCount ==
    \A i \in 1 .. Len(buttons) :
        /\ buttons[i].press_count \in {0, 1}
        /\ buttons[i].press_count = 1 => buttons[i].press_timer # Disarmed

\* A candidate single press is pending half-way through the double-press
\* window, the pin pressed again.
C19_Witness ==
    \E p \in Pins :
        /\ Registered(p)
        /\ Btn(p).press_count = 1
        /\ Btn(p).press_timer > 0
        /\ Btn(p).press_timer < DoubleTicks
        /\ level[p] = 0
        /\ edges = 3

=============================================================================
